---- MODULE Spec2Model ----
(***************************************************************************)
(* Action items of the meeting assistant: the status policy                *)
(* (models/action_item.py), the management service                         *)
(* (services/action_item_service.py), the request schemas                  *)
(* (schemas/action_item.py) and the endpoints that create records and      *)
(* validate batch requests (api/v1/endpoints/action_items.py).             *)
(*                                                                         *)
(* The store is the action_items table: a sequence of rows whose index is  *)
(* the autoincremented primary key.  One step of the model is one call of  *)
(* a service method or endpoint, run in its own committed transaction; a   *)
(* call that raises writes nothing.  The clock has the granularity of a    *)
(* call: every datetime.utcnow() read inside one call returns `now`, and   *)
(* the clock may or may not advance between two calls.  In the runs where  *)
(* calls overlap, a single-row update is two steps, split where it awaits  *)
(* its flush: the select with the check and the assignments, then the      *)
(* flush.                                                                  *)
(***************************************************************************)
EXTENDS Integers, Sequences, FiniteSets, TLC

VARIABLES
    items,   \* the action_items table, items[i].id = i
    now,     \* the value datetime.utcnow() returns
    last,    \* the last call: its name, its id or id list argument, the
             \* status it fetched and the status it asked for, how it ended
    sessions \* the calls that have fetched their row and not yet flushed

vars == <<items, now, last, sessions>>

----------------------------------------------------------------------------
(* Bounds of the model *)

MaxItems == 2      \* rows the table may hold
MaxTime == 1       \* last value of the clock
MaxIdsLen == 2     \* longest id list of a batch call

----------------------------------------------------------------------------
(* Values *)

NULL == "None"          \* Python None / SQL NULL in a text column
UNSET == "<unset>"      \* a schema field the request did not set
NoTime == 0 - 1         \* None / NULL in a DateTime column

\* Members of the two str-Enum classes, and the .value of each.
TODO == "ActionItemStatus.TODO"
IN_PROGRESS == "ActionItemStatus.IN_PROGRESS"
DONE == "ActionItemStatus.DONE"
CANCELLED == "ActionItemStatus.CANCELLED"
ActionItemStatus == {TODO, IN_PROGRESS, DONE, CANCELLED}

HIGH == "ActionItemPriority.HIGH"
MEDIUM == "ActionItemPriority.MEDIUM"
LOW == "ActionItemPriority.LOW"
ActionItemPriority == {HIGH, MEDIUM, LOW}

EnumValue ==
    [m \in ActionItemStatus \cup ActionItemPriority |->
        CASE m = TODO -> "todo"
          [] m = IN_PROGRESS -> "in_progress"
          [] m = DONE -> "done"
          [] m = CANCELLED -> "cancelled"
          [] m = HIGH -> "high"
          [] m = MEDIUM -> "medium"
          [] m = LOW -> "low"]

\* hasattr(x, "value"): true of an enum member, false of a plain str.
HasValue(x) == x \in DOMAIN EnumValue

\* The str a value compares and hashes as: a str-Enum member is a str equal
\* to its value; this is also what the column holds once it is written.
StrOf(x) == IF HasValue(x) THEN EnumValue[x] ELSE x

StatusValues == {EnumValue[m] : m \in ActionItemStatus}

----------------------------------------------------------------------------
(* Status policy *)

invalid_transitions ==
    { <<EnumValue[DONE], EnumValue[CANCELLED]>>,
      <<EnumValue[CANCELLED], EnumValue[IN_PROGRESS]>>,
      <<EnumValue[CANCELLED], EnumValue[DONE]>> }

is_valid_transition_NoCancelledRule(from_status, to_status) ==
    IF StrOf(from_status) = StrOf(to_status)
    THEN TRUE
    ELSE <<StrOf(from_status), StrOf(to_status)>>
            \notin { <<EnumValue[DONE], EnumValue[CANCELLED]>> }

is_valid_transition_NoDoneRule(from_status, to_status) ==
    IF StrOf(from_status) = StrOf(to_status)
    THEN TRUE
    ELSE <<StrOf(from_status), StrOf(to_status)>>
            \notin { <<EnumValue[CANCELLED], EnumValue[IN_PROGRESS]>>,
                     <<EnumValue[CANCELLED], EnumValue[DONE]>> }

\* is_valid_transition with cancelled as a final status.
is_valid_transition_CancelledFinal(from_status, to_status) ==
    IF StrOf(from_status) = StrOf(to_status)
    THEN TRUE
    ELSE /\ <<StrOf(from_status), StrOf(to_status)>> \notin invalid_transitions
         /\ StrOf(from_status) # EnumValue[CANCELLED]

\* is_valid_transition that also refuses todo -> done.
is_valid_transition_TodoNotDone(from_status, to_status) ==
    IF StrOf(from_status) = StrOf(to_status)
    THEN TRUE
    ELSE <<StrOf(from_status), StrOf(to_status)>>
            \notin (invalid_transitions
                        \cup { <<EnumValue[TODO], EnumValue[DONE]>> })

is_valid_transition(from_status, to_status) ==
    IF StrOf(from_status) = StrOf(to_status)
    THEN TRUE
    ELSE <<StrOf(from_status), StrOf(to_status)>> \notin invalid_transitions

----------------------------------------------------------------------------
(* The table *)

\* An insert that takes the creation for a status change.
ActionItem_Stamped(id, meeting_id, title, description, owner, due_date, priority, status) ==
    [ id |-> id,
      meeting_id |-> meeting_id,
      title |-> title,
      description |-> description,
      owner |-> owner,
      due_date |-> due_date,
      status |-> status,
      priority |-> priority,
      notes |-> NULL,
      is_deleted |-> FALSE,
      deleted_at |-> NoTime,
      status_changed_at |-> now,
      created_at |-> now,
      updated_at |-> now ]

\* The row an insert writes: the given columns, the column defaults for the
\* rest (notes NULL, is_deleted False, deleted_at and status_changed_at NULL,
\* created_at and updated_at utcnow).
ActionItem(id, meeting_id, title, description, owner, due_date, priority, status) ==
    [ id |-> id,
      meeting_id |-> meeting_id,
      title |-> title,
      description |-> description,
      owner |-> owner,
      due_date |-> due_date,
      status |-> status,
      priority |-> priority,
      notes |-> NULL,
      is_deleted |-> FALSE,
      deleted_at |-> NoTime,
      status_changed_at |-> NoTime,
      created_at |-> now,
      updated_at |-> now ]

Ids == 1..Len(items)

\* The meetings table is not written by any of these operations.
ExistingMeetings == {1, 2}

Init ==
    /\ items = <<>>
    /\ now = 0
    /\ last = [op |-> "none", id |-> 0, ids |-> <<>>, from |-> {},
               to |-> NULL, result |-> "none", count |-> 0]
    /\ sessions = {}

Tick ==
    /\ now < MaxTime
    /\ now' = now + 1
    /\ UNCHANGED <<items, last, sessions>>

\* from: the stored statuses of the rows the call fetched or matched.
Call(op, id, from, to, result, count) ==
    [op |-> op, id |-> id, ids |-> <<>>, from |-> from, to |-> to,
     result |-> result, count |-> count]

\* The same for a call that takes a list of ids.
BatchCall(op, ids, from, to, result, count) ==
    [op |-> op, id |-> 0, ids |-> ids, from |-> from, to |-> to,
     result |-> result, count |-> count]

----------------------------------------------------------------------------
(* Creation: the create endpoint and the extraction save path *)

\* create_action_item that inserts without looking the meeting up.
create_action_item_NoMeetingCheck(action_item) ==
    /\ Len(items) < MaxItems
    /\ items' = Append(items,
            ActionItem(Len(items) + 1,
                       action_item.meeting_id,
                       action_item.title,
                       action_item.description,
                       action_item.owner,
                       action_item.due_date,
                       IF action_item.priority # NULL
                       THEN EnumValue[action_item.priority]
                       ELSE "medium",
                       "todo"))
    /\ last' = Call("create_action_item", Len(items) + 1, {}, NULL, "ok", 0)
    /\ UNCHANGED <<now, sessions>>

\* POST /action-items: the meeting must exist, then one row is inserted.
create_action_item(action_item) ==
    /\ Len(items) < MaxItems
    /\ IF action_item.meeting_id \notin ExistingMeetings
       THEN /\ last' = Call("create_action_item", 0, {}, NULL, "HTTP_404_NOT_FOUND", 0)
            /\ UNCHANGED <<items, now, sessions>>
       ELSE /\ items' = Append(items,
                    ActionItem(Len(items) + 1,
                               action_item.meeting_id,
                               action_item.title,
                               action_item.description,
                               action_item.owner,
                               action_item.due_date,
                               IF action_item.priority # NULL
                               THEN EnumValue[action_item.priority]
                               ELSE "medium",
                               "todo"))
            /\ last' = Call("create_action_item", Len(items) + 1, {}, NULL, "ok", 0)
            /\ UNCHANGED <<now, sessions>>

\* datetime.strptime(s, "%Y-%m-%d"), None when s is empty or does not parse.
strptime == [s \in {"2026-01-05"} |-> "2026-01-05T00:00:00"]

parse_due_date(s) ==
    IF s = NULL \/ s = "" THEN NULL
    ELSE IF s \in DOMAIN strptime THEN strptime[s]
    ELSE NULL

\* `item.description or ""`
description_or_empty(d) == IF d = NULL \/ d = "" THEN "" ELSE d

RECURSIVE _save_action_items(_, _, _)
_save_action_items(rows, meeting_id, outputs) ==
    IF outputs = <<>> THEN rows
    ELSE _save_action_items(
            Append(rows,
                ActionItem(Len(rows) + 1,
                           meeting_id,
                           Head(outputs).title,
                           description_or_empty(Head(outputs).description),
                           Head(outputs).owner,
                           parse_due_date(Head(outputs).due_date),
                           Head(outputs).priority,
                           "todo")),
            meeting_id, Tail(outputs))

\* extract_action_items once the LLM has answered with `outputs`.
extract_action_items(meeting_id, outputs) ==
    /\ Len(items) + Len(outputs) <= MaxItems
    /\ IF meeting_id \notin ExistingMeetings
       THEN /\ last' = Call("extract_action_items", 0, {}, NULL, "MeetingNotFoundError", 0)
            /\ UNCHANGED <<items, now, sessions>>
       ELSE /\ items' = _save_action_items(items, meeting_id, outputs)
            /\ last' = Call("extract_action_items", 0, {}, NULL, "ok", Len(outputs))
            /\ UNCHANGED <<now, sessions>>

----------------------------------------------------------------------------
(* ActionItemManagementService *)

select_not_deleted_NoFilter(action_item_id) == action_item_id \in Ids

\* select(ActionItem).where(id == action_item_id).where(is_deleted == False)
\* has a row.
select_not_deleted(action_item_id) ==
    /\ action_item_id \in Ids
    /\ items[action_item_id].is_deleted = FALSE

get_action_item(action_item_id) ==
    /\ last' = Call("get_action_item", action_item_id, {}, NULL,
                    IF select_not_deleted(action_item_id)
                    THEN "ok" ELSE "ActionItemNotFoundError", 0)
    /\ UNCHANGED <<items, now, sessions>>

\* The fields of an ActionItemUpdate.
UpdateFields ==
    {"title", "description", "owner", "due_date", "status", "priority", "notes"}

\* model_dump(exclude_unset=True): the fields the request set.
update_dict(update_data) == {f \in UpdateFields : update_data[f] # UNSET}

\* update_outcome without the transition check.
update_outcome_NoValidation(item, update_data) ==
    IF "status" \in update_dict(update_data) /\ update_data.status = NULL
    THEN "AttributeError"
    ELSE IF update_data.title = NULL \/ update_data.priority = NULL
    THEN "IntegrityError"
    ELSE "ok"

\* How update_action_item ends on a fetched row.  None has no .value; title,
\* status and priority are NOT NULL columns, so the flush refuses a None.
update_outcome(item, update_data) ==
    IF "status" \in update_dict(update_data) /\ update_data.status = NULL
    THEN "AttributeError"
    ELSE IF /\ "status" \in update_dict(update_data)
            /\ ~is_valid_transition(item.status, update_data.status)
    THEN "InvalidStatusTransitionError"
    ELSE IF update_data.title = NULL \/ update_data.priority = NULL
    THEN "IntegrityError"
    ELSE "ok"

\* written with a truthiness test on the value: a None is not assigned.
written_SkipNone(item, update_data, f) ==
    IF f \in update_dict(update_data) /\ update_data[f] # NULL
    THEN update_data[f] ELSE item[f]

\* The value setattr leaves in column f.
written(item, update_data, f) ==
    IF f \in update_dict(update_data) THEN update_data[f] ELSE item[f]

\* apply_update that stamps status_changed_at on every update.
apply_update_AlwaysStamp(item, update_data) ==
    [item EXCEPT
        !.title = written(item, update_data, "title"),
        !.description = written(item, update_data, "description"),
        !.owner = written(item, update_data, "owner"),
        !.due_date = written(item, update_data, "due_date"),
        !.status = StrOf(written(item, update_data, "status")),
        !.priority = StrOf(written(item, update_data, "priority")),
        !.notes = written(item, update_data, "notes"),
        !.status_changed_at = now,
        !.updated_at = now]

\* apply_update that writes the status as the request holds it, without
\* taking the member's value.
apply_update_RawStatus(item, update_data) ==
    [item EXCEPT
        !.title = written(item, update_data, "title"),
        !.description = written(item, update_data, "description"),
        !.owner = written(item, update_data, "owner"),
        !.due_date = written(item, update_data, "due_date"),
        !.status = written(item, update_data, "status"),
        !.priority = StrOf(written(item, update_data, "priority")),
        !.notes = written(item, update_data, "notes"),
        !.status_changed_at =
            IF "status" \in update_dict(update_data) THEN now ELSE @,
        !.updated_at = now]

\* apply_update that leaves the row alone when the mask is empty.
apply_update_SkipEmpty(item, update_data) ==
    [item EXCEPT
        !.title = written(item, update_data, "title"),
        !.description = written(item, update_data, "description"),
        !.owner = written(item, update_data, "owner"),
        !.due_date = written(item, update_data, "due_date"),
        !.status = StrOf(written(item, update_data, "status")),
        !.priority = StrOf(written(item, update_data, "priority")),
        !.notes = written(item, update_data, "notes"),
        !.status_changed_at =
            IF "status" \in update_dict(update_data) THEN now ELSE @,
        !.updated_at = IF update_dict(update_data) = {} THEN @ ELSE now]

\* The row after the setattr loop, updated_at and the flush.
apply_update(item, update_data) ==
    [item EXCEPT
        !.title = written(item, update_data, "title"),
        !.description = written(item, update_data, "description"),
        !.owner = written(item, update_data, "owner"),
        !.due_date = written(item, update_data, "due_date"),
        !.status = StrOf(written(item, update_data, "status")),
        !.priority = StrOf(written(item, update_data, "priority")),
        !.notes = written(item, update_data, "notes"),
        !.status_changed_at =
            IF "status" \in update_dict(update_data) THEN now ELSE @,
        !.updated_at = now]

update_action_item(action_item_id, update_data) ==
    /\ IF ~select_not_deleted(action_item_id)
       THEN /\ last' = Call("update_action_item", action_item_id, {}, NULL,
                            "ActionItemNotFoundError", 0)
            /\ UNCHANGED items
       ELSE LET item == items[action_item_id]
                outcome == update_outcome(item, update_data)
            IN /\ last' = Call("update_action_item", action_item_id,
                               {item.status}, StrOf(update_data.status),
                               outcome, 0)
               /\ IF outcome = "ok"
                  THEN items' = [items EXCEPT
                            ![action_item_id] = apply_update(item, update_data)]
                  ELSE UNCHANGED items
    /\ UNCHANGED <<now, sessions>>

\* update_status that fetches the row whether or not it is deleted.
update_status_AnyRow(action_item_id, new_status) ==
    /\ IF ~select_not_deleted_NoFilter(action_item_id)
       THEN /\ last' = Call("update_status", action_item_id, {}, NULL,
                            "ActionItemNotFoundError", 0)
            /\ UNCHANGED items
       ELSE IF ~is_valid_transition(items[action_item_id].status, new_status)
       THEN /\ last' = Call("update_status", action_item_id,
                            {items[action_item_id].status}, StrOf(new_status),
                            "InvalidStatusTransitionError", 0)
            /\ UNCHANGED items
       ELSE /\ items' = [items EXCEPT ![action_item_id] =
                    [@ EXCEPT !.status = StrOf(new_status),
                              !.status_changed_at = now,
                              !.updated_at = now]]
            /\ last' = Call("update_status", action_item_id,
                            {items[action_item_id].status}, StrOf(new_status),
                            "ok", 0)
    /\ UNCHANGED <<now, sessions>>

\* update_status that leaves status_changed_at alone.
update_status_NoStamp(action_item_id, new_status) ==
    /\ IF ~select_not_deleted(action_item_id)
       THEN /\ last' = Call("update_status", action_item_id, {}, NULL,
                            "ActionItemNotFoundError", 0)
            /\ UNCHANGED items
       ELSE IF ~is_valid_transition(items[action_item_id].status, new_status)
       THEN /\ last' = Call("update_status", action_item_id,
                            {items[action_item_id].status}, StrOf(new_status),
                            "InvalidStatusTransitionError", 0)
            /\ UNCHANGED items
       ELSE /\ items' = [items EXCEPT ![action_item_id] =
                    [@ EXCEPT !.status = StrOf(new_status),
                              !.updated_at = now]]
            /\ last' = Call("update_status", action_item_id,
                            {items[action_item_id].status}, StrOf(new_status),
                            "ok", 0)
    /\ UNCHANGED <<now, sessions>>

update_status(action_item_id, new_status) ==
    /\ IF ~select_not_deleted(action_item_id)
       THEN /\ last' = Call("update_status", action_item_id, {}, NULL,
                            "ActionItemNotFoundError", 0)
            /\ UNCHANGED items
       ELSE LET item == items[action_item_id]
                new_status_value ==
                    IF HasValue(new_status) THEN EnumValue[new_status]
                    ELSE new_status
            IN IF ~is_valid_transition(item.status, new_status_value)
               THEN /\ last' = Call("update_status", action_item_id,
                                    {item.status}, new_status_value,
                                    "InvalidStatusTransitionError", 0)
                    /\ UNCHANGED items
               ELSE /\ items' = [items EXCEPT ![action_item_id] =
                            [item EXCEPT !.status = new_status_value,
                                         !.status_changed_at = now,
                                         !.updated_at = now]]
                    /\ last' = Call("update_status", action_item_id,
                                    {item.status}, new_status_value, "ok", 0)
    /\ UNCHANGED <<now, sessions>>

\* delete_action_item that sets the flag without the timestamp.
delete_action_item_NoTimestamp(action_item_id) ==
    /\ IF ~select_not_deleted(action_item_id)
       THEN /\ last' = Call("delete_action_item", action_item_id, {}, NULL,
                            "ActionItemNotFoundError", 0)
            /\ UNCHANGED items
       ELSE /\ items' = [items EXCEPT ![action_item_id] =
                    [@ EXCEPT !.is_deleted = TRUE,
                              !.updated_at = now]]
            /\ last' = Call("delete_action_item", action_item_id, {}, NULL,
                            "ok", 0)
    /\ UNCHANGED <<now, sessions>>

\* delete_action_item that fetches the row whether or not it is deleted.
delete_action_item_Refetch(action_item_id) ==
    /\ IF ~select_not_deleted_NoFilter(action_item_id)
       THEN /\ last' = Call("delete_action_item", action_item_id, {}, NULL,
                            "ActionItemNotFoundError", 0)
            /\ UNCHANGED items
       ELSE /\ items' = [items EXCEPT ![action_item_id] =
                    [@ EXCEPT !.is_deleted = TRUE,
                              !.deleted_at = now,
                              !.updated_at = now]]
            /\ last' = Call("delete_action_item", action_item_id, {}, NULL,
                            "ok", 0)
    /\ UNCHANGED <<now, sessions>>

delete_action_item(action_item_id) ==
    /\ IF ~select_not_deleted(action_item_id)
       THEN /\ last' = Call("delete_action_item", action_item_id, {}, NULL,
                            "ActionItemNotFoundError", 0)
            /\ UNCHANGED items
       ELSE /\ items' = [items EXCEPT ![action_item_id] =
                    [@ EXCEPT !.is_deleted = TRUE,
                              !.deleted_at = now,
                              !.updated_at = now]]
            /\ last' = Call("delete_action_item", action_item_id, {}, NULL,
                            "ok", 0)
    /\ UNCHANGED <<now, sessions>>

\* The ids of a list, as the IN (...) of the statement sees them.
IdSet(ids) == {ids[k] : k \in 1..Len(ids)}

batch_rows_IncludingDeleted(ids) == {i \in Ids : i \in IdSet(ids)}

\* The rows UPDATE ... WHERE id IN (ids) AND is_deleted = False matches.
batch_rows(ids) ==
    {i \in Ids : i \in IdSet(ids) /\ items[i].is_deleted = FALSE}

\* batch_update_status with the per-row check of the single-row paths.
batch_update_status_Validated(ids, new_status) ==
    IF \E i \in batch_rows(ids) :
            ~is_valid_transition(items[i].status, new_status)
    THEN /\ last' = BatchCall("batch_update_status", ids,
                              {items[i].status : i \in batch_rows(ids)},
                         StrOf(new_status), "InvalidStatusTransitionError", 0)
         /\ UNCHANGED <<items, now, sessions>>
    ELSE /\ items' = [i \in 1..Len(items) |->
                IF i \in batch_rows(ids)
                THEN [items[i] EXCEPT !.status = StrOf(new_status),
                                      !.status_changed_at = now,
                                      !.updated_at = now]
                ELSE items[i]]
         /\ last' = BatchCall("batch_update_status", ids,
                         {items[i].status : i \in batch_rows(ids)},
                         StrOf(new_status), "ok", Cardinality(batch_rows(ids)))
         /\ UNCHANGED <<now, sessions>>

\* batch_update_status as a loop over the rows, seen after its first write.
batch_update_status_RowByRow(ids, new_status) ==
    LET rows == batch_rows(ids)
        first == {i \in rows : \A j \in rows : i <= j}
    IN /\ last' = BatchCall("batch_update_status", ids,
                       {items[i].status : i \in rows},
                       StrOf(new_status), "ok", Cardinality(rows))
       /\ items' = [i \in 1..Len(items) |->
                IF i \in first
                THEN [items[i] EXCEPT !.status = StrOf(new_status),
                                      !.status_changed_at = now,
                                      !.updated_at = now]
                ELSE items[i]]
       /\ UNCHANGED <<now, sessions>>

batch_update_status(ids, new_status) ==
    LET new_status_value ==
            IF HasValue(new_status) THEN EnumValue[new_status] ELSE new_status
    IN /\ last' = BatchCall("batch_update_status", ids,
                       {items[i].status : i \in batch_rows(ids)},
                       new_status_value, "ok", Cardinality(batch_rows(ids)))
       /\ items' = [i \in 1..Len(items) |->
                IF i \in batch_rows(ids)
                THEN [items[i] EXCEPT !.status = new_status_value,
                                      !.status_changed_at = now,
                                      !.updated_at = now]
                ELSE items[i]]
       /\ UNCHANGED <<now, sessions>>

----------------------------------------------------------------------------
(* The batch endpoint and its request schema *)

BatchIdsMinLength == 1
BatchIdsMaxLength == 100

validate_ids_unique_Off(v) == TRUE

\* BatchStatusUpdate.validate_ids_unique: len(v) != len(set(v)) raises.
validate_ids_unique(v) == Len(v) = Cardinality(IdSet(v))

\* Building the BatchStatusUpdate of a request: "ok", or what the validation
\* reports (the length limits of the field first, then the validator).
BatchStatusUpdate(ids, status) ==
    IF Len(ids) < BatchIdsMinLength THEN "too_short"
    ELSE IF Len(ids) > BatchIdsMaxLength THEN "too_long"
    ELSE IF ~validate_ids_unique(ids) THEN "Duplicate IDs are not allowed"
    ELSE "ok"

\* PATCH /action-items/batch/status: the body is validated before the
\* endpoint function, and so the service, runs.
batch_update_status_endpoint(ids, status) ==
    IF BatchStatusUpdate(ids, status) = "ok"
    THEN batch_update_status(ids, status)
    ELSE /\ last' = BatchCall("batch_update_status_endpoint", ids, {}, NULL,
                         BatchStatusUpdate(ids, status), 0)
         /\ UNCHANGED <<items, now, sessions>>

----------------------------------------------------------------------------
(* The list endpoint *)

NoInt == 0 - 1          \* None where a query parameter is an Optional[int]

\* list_rows that ignores include_deleted and returns deleted rows too.
list_rows_IgnoringFlag(meeting_id, status_filter, include_deleted) ==
    {i \in Ids :
        /\ (meeting_id # NoInt => items[i].meeting_id = meeting_id)
        /\ (status_filter # NULL => items[i].status = status_filter)}

\* The rows the query selects once its where clauses are added.
list_rows(meeting_id, status_filter, include_deleted) ==
    {i \in Ids :
        /\ (~include_deleted => items[i].is_deleted = FALSE)
        /\ (meeting_id # NoInt => items[i].meeting_id = meeting_id)
        /\ (status_filter # NULL => items[i].status = status_filter)}

\* order_by(created_at.desc()): the orders the statement may return the rows
\* S in; rows with the same created_at come in an order the database picks.
order_by_created_at_desc(S) ==
    {q \in [1..Cardinality(S) -> S] :
        /\ \A k \in DOMAIN q : \A l \in DOMAIN q : k # l => q[k] # q[l]
        /\ \A k \in DOMAIN q : \A l \in DOMAIN q :
                k < l => items[q[k]].created_at >= items[q[l]].created_at}

\* What a list call leaves in `last`: the query parameters, and the ids of
\* the rows returned, in the order returned.
ListCall(meeting_id, status_filter, include_deleted, rows) ==
    [op |-> "list_action_items", id |-> 0, ids |-> rows, from |-> {},
     to |-> NULL, result |-> "ok", count |-> Len(rows),
     meeting_id |-> meeting_id, status_filter |-> status_filter,
     include_deleted |-> include_deleted]

\* GET /action-items
list_action_items(meeting_id, status_filter, include_deleted) ==
    /\ \E rows \in order_by_created_at_desc(
                    list_rows(meeting_id, status_filter, include_deleted)) :
            last' = ListCall(meeting_id, status_filter, include_deleted, rows)
    /\ UNCHANGED <<items, now, sessions>>

----------------------------------------------------------------------------
(* Overlapping calls: a single-row update split at `await self.db.flush()` *)

\* The requests in progress at one time, each with its own session.
Callers == {"A", "B"}

InFlight(c) == \E s \in sessions : s.caller = c

SessionOf(c) == CHOOSE s \in sessions : s.caller = c

Columns ==
    {"id", "meeting_id", "title", "description", "owner", "due_date",
     "status", "priority", "notes", "is_deleted", "deleted_at",
     "status_changed_at", "created_at", "updated_at"}

\* The row after the UPDATE a flush emits for an object that was loaded as
\* `loaded` and is now `item`: the statement sets the columns whose value in
\* the object differs from the loaded one, on the row as it is stored.
flush_row(stored, loaded, item) ==
    [f \in Columns |-> IF item[f] # loaded[f] THEN item[f] ELSE stored[f]]

\* A session between its select and its flush: the row as loaded, the
\* object after the assignments, and how the flush will end.
Session(c, op, id, to, loaded, item, outcome) ==
    [caller |-> c, op |-> op, id |-> id, to |-> to,
     loaded |-> loaded, item |-> item, outcome |-> outcome]

\* What a flushed call leaves in `last`; stored is the status the row held
\* when the UPDATE ran.
FlushCall(s, stored) ==
    [op |-> s.op, id |-> s.id, ids |-> <<>>, from |-> {s.loaded.status},
     to |-> s.to, result |-> s.outcome, count |-> 0,
     caller |-> s.caller, stored |-> stored]

\* update_action_item up to its flush: the select, the transition check on
\* the loaded status and the assignments, with nothing awaited in between.
update_action_item_select(c, action_item_id, update_data) ==
    /\ ~InFlight(c)
    /\ IF ~select_not_deleted(action_item_id)
       THEN /\ last' = Call("update_action_item", action_item_id, {}, NULL,
                            "ActionItemNotFoundError", 0)
            /\ UNCHANGED sessions
       ELSE LET item == items[action_item_id]
                outcome == update_outcome(item, update_data)
            IN IF outcome \in {"AttributeError", "InvalidStatusTransitionError"}
               THEN /\ last' = Call("update_action_item", action_item_id,
                                    {item.status}, StrOf(update_data.status),
                                    outcome, 0)
                    /\ UNCHANGED sessions
               ELSE /\ sessions' = sessions \cup
                        {Session(c, "update_action_item", action_item_id,
                                 StrOf(update_data.status), item,
                                 apply_update(item, update_data), outcome)}
                    /\ UNCHANGED last
    /\ UNCHANGED <<items, now>>

\* update_status up to its flush.
update_status_select(c, action_item_id, new_status) ==
    /\ ~InFlight(c)
    /\ IF ~select_not_deleted(action_item_id)
       THEN /\ last' = Call("update_status", action_item_id, {}, NULL,
                            "ActionItemNotFoundError", 0)
            /\ UNCHANGED sessions
       ELSE LET item == items[action_item_id]
                new_status_value ==
                    IF HasValue(new_status) THEN EnumValue[new_status]
                    ELSE new_status
            IN IF ~is_valid_transition(item.status, new_status_value)
               THEN /\ last' = Call("update_status", action_item_id,
                                    {item.status}, new_status_value,
                                    "InvalidStatusTransitionError", 0)
                    /\ UNCHANGED sessions
               ELSE /\ sessions' = sessions \cup
                        {Session(c, "update_status", action_item_id,
                                 new_status_value, item,
                                 [item EXCEPT !.status = new_status_value,
                                              !.status_changed_at = now,
                                              !.updated_at = now],
                                 "ok")}
                    /\ UNCHANGED last
    /\ UNCHANGED <<items, now>>

\* A flush that refuses to write a row another call has written since it
\* was loaded.
flush_Versioned(c) ==
    /\ InFlight(c)
    /\ LET s == SessionOf(c)
       IN /\ IF s.outcome = "ok" /\ items[s.id] = s.loaded
             THEN items' = [items EXCEPT ![s.id] =
                                flush_row(items[s.id], s.loaded, s.item)]
             ELSE UNCHANGED items
          /\ last' = FlushCall(
                [s EXCEPT !.outcome =
                    IF s.outcome = "ok" /\ items[s.id] # s.loaded
                    THEN "StaleDataError" ELSE @],
                items[s.id].status)
          /\ sessions' = sessions \ {s}
    /\ UNCHANGED now

\* `await self.db.flush()` of a call in flight, and its return: the UPDATE
\* by primary key, which compares nothing with what was loaded.
flush(c) ==
    /\ InFlight(c)
    /\ LET s == SessionOf(c)
       IN /\ IF s.outcome = "ok"
             THEN items' = [items EXCEPT ![s.id] =
                                flush_row(items[s.id], s.loaded, s.item)]
             ELSE UNCHANGED items
          /\ last' = FlushCall(s, items[s.id].status)
          /\ sessions' = sessions \ {s}
    /\ UNCHANGED now

----------------------------------------------------------------------------
(* The calls of a run *)

\* Requests the ActionItemCreate schema accepts; meeting 3 does not exist.
CreateRequests ==
    [ meeting_id : {1, 3},
      title : {"t1"},
      description : {"d1"},
      owner : {NULL},
      due_date : {NULL},
      priority : {MEDIUM} ]

\* Items of an ActionItemsExtractionOutput.
ExtractionOutputs ==
    [ title : {"t1"},
      description : {"d1"},
      owner : {NULL},
      due_date : {NULL, "2026-13-45"},
      priority : {"medium"} ]

\* Requests the ActionItemUpdate schema accepts.
UpdateRequests ==
    [ title : {UNSET},
      description : {UNSET},
      owner : {UNSET},
      due_date : {UNSET},
      status : {UNSET} \cup ActionItemStatus,
      priority : {UNSET},
      notes : {UNSET} ]

\* The ids a call may name: every row, and one id that no row has.
RequestIds == 1..(MaxItems + 1)

RECURSIVE SeqsUpTo(_, _)
SeqsUpTo(S, n) ==
    IF n = 0 THEN {<<>>}
    ELSE LET shorter == SeqsUpTo(S, n - 1)
         IN shorter \cup {Append(q, x) : q \in shorter, x \in S}

IdLists == SeqsUpTo(RequestIds, MaxIdsLen)

Create == \E r \in CreateRequests : create_action_item(r)

Extract ==
    \E m \in {1, 3} : \E outs \in SeqsUpTo(ExtractionOutputs, MaxItems) \ {<<>>} :
        extract_action_items(m, outs)

Get == \E id \in RequestIds : get_action_item(id)

Update == \E id \in RequestIds : \E u \in UpdateRequests : update_action_item(id, u)

UpdateStatus ==
    \E id \in RequestIds : \E st \in ActionItemStatus : update_status(id, st)

Delete == \E id \in RequestIds : delete_action_item(id)

\* The service called with a list the request schema would refuse (a list
\* the schema accepts reaches the service through BatchEndpoint).
Batch ==
    \E ids \in IdLists : \E st \in ActionItemStatus :
        /\ BatchStatusUpdate(ids, st) # "ok"
        /\ batch_update_status(ids, st)

BatchEndpoint ==
    \E ids \in IdLists : \E st \in ActionItemStatus :
        batch_update_status_endpoint(ids, st)

Next ==
    \/ Tick
    \/ Create
    \/ Extract
    \/ Get
    \/ Update
    \/ UpdateStatus
    \/ Delete
    \/ Batch
    \/ BatchEndpoint

Spec == Init /\ [][Next]_vars

\* Runs without the batch path.
NextNoBatch ==
    \/ Tick
    \/ Create
    \/ Update
    \/ UpdateStatus
    \/ Delete

SpecNoBatch == Init /\ [][NextNoBatch]_vars

----------------------------------------------------------------------------
(* Runs that only create rows, over a wider range of supplied fields *)

WideCreateRequests ==
    [ meeting_id : {1, 3},
      title : {"t1", "t2"},
      description : {NULL, "d1"},
      owner : {NULL, "o1"},
      due_date : {NULL, "2026-01-05T00:00:00"},
      priority : {MEDIUM, HIGH} ]

WideExtractionOutputs ==
    [ title : {"t1"},
      description : {NULL, "d1"},
      owner : {NULL},
      due_date : {NULL, "2026-01-05", "2026-13-45"},
      priority : {"high"} ]

CreateWide == \E r \in WideCreateRequests : create_action_item(r)

ExtractWide ==
    \E m \in {1, 3} :
        \E outs \in SeqsUpTo(WideExtractionOutputs, MaxItems) \ {<<>>} :
            extract_action_items(m, outs)

NextCreate ==
    \/ Tick
    \/ CreateWide
    \/ ExtractWide

SpecCreate == Init /\ [][NextCreate]_vars

----------------------------------------------------------------------------
(* Runs on one row, over a wider range of update requests *)

WideUpdateRequests ==
    [ title : {UNSET, NULL, "t2"},
      description : {UNSET, NULL, "d2"},
      owner : {UNSET},
      due_date : {UNSET},
      status : {UNSET, NULL} \cup ActionItemStatus,
      priority : {UNSET, NULL, LOW},
      notes : {UNSET} ]

\* Row 1, and an id that no row has.
OneRowIds == {1, 2}

CreateFirst == items = <<>> /\ Create

UpdateWide ==
    \E id \in OneRowIds : \E u \in WideUpdateRequests : update_action_item(id, u)

UpdateStatusOne ==
    \E id \in OneRowIds : \E st \in ActionItemStatus : update_status(id, st)

DeleteOne == \E id \in OneRowIds : delete_action_item(id)

NextUpdate ==
    \/ Tick
    \/ CreateFirst
    \/ UpdateWide
    \/ UpdateStatusOne
    \/ DeleteOne

SpecUpdate == Init /\ [][NextUpdate]_vars

----------------------------------------------------------------------------
(* Runs with list queries, on rows of two meetings *)

ListCreateRequests ==
    [ meeting_id : {1, 2},
      title : {"t1"},
      description : {"d1"},
      owner : {NULL},
      due_date : {NULL},
      priority : {MEDIUM} ]

\* The status query parameter is any string: the four values, and one that
\* is no status.
StatusFilters == {NULL, "no_such_status"} \cup StatusValues

CreateForList == \E r \in ListCreateRequests : create_action_item(r)

List ==
    \E m \in {NoInt, 1, 2} : \E sf \in StatusFilters :
        \E include_deleted \in BOOLEAN :
            list_action_items(m, sf, include_deleted)

NextList ==
    \/ Tick
    \/ CreateForList
    \/ UpdateStatus
    \/ Delete
    \/ List

SpecList == Init /\ [][NextList]_vars

----------------------------------------------------------------------------
(* Runs in which single-row updates of row 1 overlap each other and a      *)
(* delete of the row, with the clock at rest                               *)

RaceUpdateRequests ==
    [ title : {UNSET, "t1", "t2"},
      description : {UNSET},
      owner : {UNSET},
      due_date : {UNSET},
      status : {UNSET} \cup ActionItemStatus,
      priority : {UNSET},
      notes : {UNSET} ]

UpdateSelect ==
    \E c \in Callers : \E id \in OneRowIds : \E u \in RaceUpdateRequests :
        update_action_item_select(c, id, u)

UpdateStatusSelect ==
    \E c \in Callers : \E id \in OneRowIds : \E st \in ActionItemStatus :
        update_status_select(c, id, st)

Flush == \E c \in Callers : flush(c)

NextRace ==
    \/ CreateFirst
    \/ UpdateSelect
    \/ UpdateStatusSelect
    \/ Flush
    \/ DeleteOne

SpecRace == Init /\ [][NextRace]_vars

----------------------------------------------------------------------------
(* Properties *)

\* The three ordered pairs of stored status values the policy is documented
\* to reject.
RejectedPairs ==
    { <<"done", "cancelled">>,
      <<"cancelled", "in_progress">>,
      <<"cancelled", "done">> }

\* C1: for every stored status and every target status, given as the enum
\* member or as its value, is_valid_transition is false exactly on the three
\* rejected pairs; in particular it is true on the pair (s, s).  A call of
\* update_status is refused as an invalid transition exactly on those pairs.
C1_TransitionTable ==
    /\ \A i \in Ids : \A t \in ActionItemStatus :
        /\ is_valid_transition(items[i].status, EnumValue[t])
                = (<<items[i].status, EnumValue[t]>> \notin RejectedPairs)
        /\ is_valid_transition(items[i].status, t)
                = (<<items[i].status, EnumValue[t]>> \notin RejectedPairs)
        /\ is_valid_transition(items[i].status, items[i].status)
    /\ (last.op = "update_status" /\ last.from # {}) =>
            ((last.result = "InvalidStatusTransitionError")
                <=> (\E f \in last.from : <<f, last.to>> \in RejectedPairs))

\* update_status has just been refused on cancelled -> done.
C1_Witness ==
    /\ last.op = "update_status"
    /\ last.from = {"cancelled"}
    /\ last.to = "done"
    /\ last.result = "InvalidStatusTransitionError"

\* In the action formulas below, the conjuncts on last' ahead of an action
\* only select the call the step is: the action itself sets them.

\* C2: an update_action_item whose mask holds a rejected target status
\* (whatever else the mask holds) and an update_status with a rejected target,
\* on a row that is not deleted, end with InvalidStatusTransitionError and
\* leave every column of every row as it was.
C2_RejectedUpdateChangesNothing ==
    [][ \A id \in OneRowIds :
            ( /\ last'.id = id
              /\ select_not_deleted(id)
              /\ <<items[id].status, last'.to>> \in RejectedPairs ) =>
                /\ last'.op = "update_action_item" =>
                    \A u \in WideUpdateRequests :
                        ( /\ u.status \in ActionItemStatus
                          /\ EnumValue[u.status] = last'.to
                          /\ update_action_item(id, u) )
                        => ( /\ last'.result = "InvalidStatusTransitionError"
                             /\ items' = items )
                /\ \A st \in ActionItemStatus :
                        ( /\ last'.op = "update_status"
                          /\ EnumValue[st] = last'.to
                          /\ update_status(id, st) )
                        => ( /\ last'.result = "InvalidStatusTransitionError"
                             /\ items' = items )
      ]_vars

\* update_action_item has just been refused on done -> cancelled, on a row
\* that is not deleted.
C2_Witness ==
    /\ last.op = "update_action_item"
    /\ last.result = "InvalidStatusTransitionError"
    /\ last.from = {"done"}
    /\ last.to = "cancelled"
    /\ select_not_deleted(last.id)
    /\ items[last.id].status = "done"

\* C3: without the batch path, every step that changes the stored status of
\* a row from s to t has is_valid_transition(s, t); no row goes directly
\* done -> cancelled, cancelled -> in_progress or cancelled -> done.
C3_OnlyValidTransitions ==
    [][ \A i \in Ids :
            items'[i].status # items[i].status =>
                /\ is_valid_transition(items[i].status, items'[i].status)
                /\ <<items[i].status, items'[i].status>> \notin RejectedPairs
      ]_vars

\* A single-row update has just moved a row from cancelled back to todo.
C3_Witness ==
    /\ last.op \in {"update_action_item", "update_status"}
    /\ last.result = "ok"
    /\ last.from = {"cancelled"}
    /\ last.to = "todo"
    /\ items[last.id].status = "todo"

\* C4: batch_update_status returns the number of listed ids that have a row
\* with is_deleted false; exactly those rows get the target status and
\* status_changed_at and updated_at set to the time of the call, with no
\* other column changed; every other row is left as it was.
C4_BatchFrame ==
    [][ \A st \in ActionItemStatus :
            ( /\ last'.op = "batch_update_status"
              /\ last'.to = EnumValue[st]
              /\ batch_update_status(last'.ids, st) ) =>
                LET ids == last'.ids
                    hit == {i \in Ids :
                                /\ \E k \in 1..Len(ids) : ids[k] = i
                                /\ ~items[i].is_deleted}
                IN /\ last'.count = Cardinality(hit)
                   /\ Len(items') = Len(items)
                   /\ \A i \in Ids :
                        items'[i] =
                            IF i \in hit
                            THEN [items[i] EXCEPT
                                    !.status = EnumValue[st],
                                    !.status_changed_at = now,
                                    !.updated_at = now]
                            ELSE items[i]
      ]_vars

\* A batch call has just counted one row while the other row, soft-deleted
\* earlier, kept another status and its older updated_at.
C4_Witness ==
    /\ last.op = "batch_update_status"
    /\ last.count = 1
    /\ Len(items) = 2
    /\ IdSet(last.ids) = {1, 2}
    /\ \E i \in Ids : \E j \in Ids :
        /\ ~items[i].is_deleted
        /\ items[i].status = last.to
        /\ items[i].status_changed_at = now
        /\ items[i].updated_at = now
        /\ items[j].is_deleted
        /\ items[j].status # last.to
        /\ items[j].updated_at < now

\* C5: batch_update_status checks no transition: it always ends normally,
\* and every listed row that is not deleted, whatever its status, has the
\* target status afterwards and is counted.
C5_BatchSkipsValidation ==
    [][ \A st \in ActionItemStatus :
            ( /\ last'.op = "batch_update_status"
              /\ last'.to = EnumValue[st]
              /\ batch_update_status(last'.ids, st) ) =>
                /\ last'.result = "ok"
                /\ \A i \in Ids :
                        (i \in IdSet(last'.ids) /\ ~items[i].is_deleted) =>
                            /\ items'[i].status = EnumValue[st]
                            /\ last'.count >= 1
                            /\ items[i].status \in last'.from
      ]_vars

\* A batch call has just forced a cancelled row to in_progress.
C5_Witness ==
    /\ last.op = "batch_update_status"
    /\ last.result = "ok"
    /\ "cancelled" \in last.from
    /\ last.to = "in_progress"
    /\ last.count >= 1
    /\ \E i \in Ids : items[i].status = "in_progress" /\ ~items[i].is_deleted

\* C6: no step removes a row or clears is_deleted; a delete_action_item that
\* succeeds leaves the row with is_deleted true and deleted_at set; and
\* get_action_item on the id of a soft-deleted row raises
\* ActionItemNotFoundError.
C6_DeletedIsNotFound ==
    [][ /\ Len(items') >= Len(items)
        /\ \A i \in Ids :
                items[i].is_deleted =>
                    (items'[i].is_deleted /\ items'[i].deleted_at # NoTime)
        /\ \A id \in RequestIds :
            /\ (delete_action_item(id) /\ last'.result = "ok") =>
                    (items'[id].is_deleted /\ items'[id].deleted_at # NoTime)
            /\ (get_action_item(id) /\ id \in Ids /\ items[id].is_deleted) =>
                    last'.result = "ActionItemNotFoundError"
      ]_vars

\* get_action_item has just raised on a row that is still stored, deleted.
C6_Witness ==
    /\ last.op = "get_action_item"
    /\ last.result = "ActionItemNotFoundError"
    /\ last.id \in Ids
    /\ items[last.id].is_deleted
    /\ items[last.id].deleted_at # NoTime

\* C7: in every state, each row has deleted_at set if and only if
\* is_deleted is true.
C7_DeletedAtIffDeleted ==
    \A i \in Ids : (items[i].deleted_at # NoTime) <=> items[i].is_deleted

\* One row deleted and one not, after an update and a batch call ran.
C7_Witness ==
    /\ Len(items) = 2
    /\ items[1].is_deleted /\ items[1].deleted_at # NoTime
    /\ ~items[2].is_deleted /\ items[2].deleted_at = NoTime
    /\ items[2].status = "done"
    /\ last.op = "batch_update_status"

\* C8: every row the create endpoint or the extraction save path adds starts
\* with status todo, is_deleted false, deleted_at and status_changed_at
\* null, whatever fields the request or the extraction supplied.
C8_CreatedAsTodo ==
    [][ \A i \in (Len(items) + 1)..Len(items') :
            /\ items'[i].status = "todo"
            /\ items'[i].is_deleted = FALSE
            /\ items'[i].deleted_at = NoTime
            /\ items'[i].status_changed_at = NoTime
      ]_vars

\* A row created by the endpoint with a high priority and a due date, and a
\* row saved by the extraction with its description defaulted.
C8_Witness ==
    /\ Len(items) = 2
    /\ last.op = "extract_action_items"
    /\ items[1].priority = "high" /\ items[1].due_date # NULL
    /\ items[1].title = "t2"
    /\ items[2].description = ""
    /\ items[1].status = "todo" /\ items[2].status = "todo"

\* C9: an update_action_item whose mask has no status field leaves the
\* status and the status_changed_at of a row that is not deleted as they were.
C9_NonStatusUpdateKeepsStamp ==
    [][ \A id \in OneRowIds :
            ( /\ last'.op = "update_action_item"
              /\ last'.id = id
              /\ last'.to = UNSET
              /\ select_not_deleted(id) ) =>
                \A u \in WideUpdateRequests :
                    (u.status = UNSET /\ update_action_item(id, u))
                    => /\ items'[id].status = items[id].status
                       /\ items'[id].status_changed_at =
                              items[id].status_changed_at
      ]_vars

\* An update without status has just changed the title of a row whose status
\* was changed earlier, at an earlier time.
C9_Witness ==
    /\ last.op = "update_action_item"
    /\ last.to = UNSET
    /\ last.result = "ok"
    /\ items[last.id].title = "t2"
    /\ items[last.id].status_changed_at # NoTime
    /\ items[last.id].status_changed_at < items[last.id].updated_at

\* C10: a batch request that lists an id twice is refused when the request
\* is validated: the endpoint reports the validation error, the service is
\* not called and no row changes.
C10_DuplicateIdsRejected ==
    [][ \A st \in ActionItemStatus :
            ( /\ \E k \in 1..Len(last'.ids) : \E l \in 1..Len(last'.ids) :
                    k # l /\ last'.ids[k] = last'.ids[l]
              /\ batch_update_status_endpoint(last'.ids, st) )
            => /\ last'.op = "batch_update_status_endpoint"
               /\ last'.result = "Duplicate IDs are not allowed"
               /\ items' = items
      ]_vars

\* A request with a duplicate has just been refused while a row it names
\* was there to be changed.
C10_Witness ==
    /\ last.op = "batch_update_status_endpoint"
    /\ last.result = "Duplicate IDs are not allowed"
    /\ Len(last.ids) = 2
    /\ last.ids[1] = last.ids[2]
    /\ last.ids[1] \in Ids
    /\ ~items[last.ids[1]].is_deleted

\* C11: after a list call with include_deleted false, for every meeting_id
\* and status filter, no returned row is soft-deleted, and every row that is
\* not deleted and matches the filters given is returned, once.
C11_ListExcludesDeleted ==
    (last.op = "list_action_items" /\ ~last.include_deleted) =>
        /\ \A k \in 1..Len(last.ids) :
                /\ last.ids[k] \in Ids
                /\ ~items[last.ids[k]].is_deleted
        /\ \A i \in Ids :
                ( /\ ~items[i].is_deleted
                  /\ (last.meeting_id = NoInt
                        \/ items[i].meeting_id = last.meeting_id)
                  /\ (last.status_filter = NULL
                        \/ items[i].status = last.status_filter) )
                => Cardinality({k \in 1..Len(last.ids) : last.ids[k] = i}) = 1

\* A list call filtered on meeting 1 and status done has just returned one
\* row while a deleted row of the same meeting and status is stored.
C11_Witness ==
    /\ last.op = "list_action_items"
    /\ ~last.include_deleted
    /\ last.meeting_id = 1
    /\ last.status_filter = "done"
    /\ Len(last.ids) = 1
    /\ \E i \in Ids :
        /\ items[i].is_deleted
        /\ items[i].meeting_id = 1
        /\ items[i].status = "done"

\* C12: delete_action_item on the id of a row that is already soft-deleted
\* raises ActionItemNotFoundError and leaves every row, with the deleted_at
\* and updated_at the first delete wrote, as it was: the table after the
\* second delete is the table after the first.
C12_SecondDeleteChangesNothing ==
    [][ \A id \in RequestIds :
            ( /\ last'.op = "delete_action_item"
              /\ last'.id = id
              /\ id \in Ids
              /\ items[id].is_deleted
              /\ delete_action_item(id) )
            => /\ last'.result = "ActionItemNotFoundError"
               /\ items' = items
      ]_vars

\* A delete has just been refused on a row deleted at an earlier time.
C12_Witness ==
    /\ last.op = "delete_action_item"
    /\ last.result = "ActionItemNotFoundError"
    /\ last.id \in Ids
    /\ items[last.id].is_deleted
    /\ items[last.id].deleted_at < now
    /\ items[last.id].updated_at = items[last.id].deleted_at

\* The mask of an update request that sets status and nothing else.
StatusOnly(st) ==
    [ title |-> UNSET, description |-> UNSET, owner |-> UNSET,
      due_date |-> UNSET, status |-> st, priority |-> UNSET, notes |-> UNSET ]

\* The one outcome a status change of row id to st may have: not found, or
\* refused with nothing written, or the row with the status written,
\* status_changed_at and updated_at set to the time of the call and every
\* other column, and every other row, as before.
StatusChangeOutcome(id, st) ==
    IF ~(id \in Ids /\ ~items[id].is_deleted)
    THEN /\ last'.result = "ActionItemNotFoundError"
         /\ last'.from = {} /\ last'.to = NULL
         /\ items' = items
    ELSE /\ last'.from = {items[id].status}
         /\ last'.to = EnumValue[st]
         /\ IF <<items[id].status, EnumValue[st]>> \in RejectedPairs
            THEN /\ last'.result = "InvalidStatusTransitionError"
                 /\ items' = items
            ELSE /\ last'.result = "ok"
                 /\ items' = [items EXCEPT ![id] =
                        [@ EXCEPT !.status = EnumValue[st],
                                  !.status_changed_at = now,
                                  !.updated_at = now]]

\* C13: for every row state and every target status st, update_status(id, st)
\* and update_action_item(id, mask with only status = st) end the same way:
\* the same error, or the same row written.
C13_StatusPathsAgree ==
    [][ \A id \in RequestIds : \A st \in ActionItemStatus :
            /\ ( /\ last'.op = "update_status"
                  /\ last'.id = id
                  /\ update_status(id, st) ) => StatusChangeOutcome(id, st)
            /\ ( /\ last'.op = "update_action_item"
                  /\ last'.id = id
                  /\ update_action_item(id, StatusOnly(st)) )
                    => StatusChangeOutcome(id, st)
      ]_vars

\* update_status has just reopened a done row, created at an earlier time.
C13_Witness ==
    /\ last.op = "update_status"
    /\ last.result = "ok"
    /\ last.from = {"done"}
    /\ last.to = "in_progress"
    /\ items[last.id].status = "in_progress"
    /\ items[last.id].status_changed_at = now
    /\ items[last.id].created_at < now

\* C14: in every state reached by create, extraction save,
\* update_action_item, update_status and batch_update_status calls whose
\* status argument is an ActionItemStatus, the status column of every row
\* holds one of todo, in_progress, done, cancelled.
C14_StatusIsOneOfFour ==
    \A i \in Ids : items[i].status \in {"todo", "in_progress", "done", "cancelled"}

\* update_action_item has just written a status on one row, next to a row
\* that holds another status.
C14_Witness ==
    /\ Len(items) = 2
    /\ last.op = "update_action_item"
    /\ last.result = "ok"
    /\ last.to = "cancelled"
    /\ items[last.id].status = "cancelled"
    /\ \E i \in Ids : items[i].status = "in_progress"

\* C15: status_changed_at is null exactly while the status of the row has
\* never changed since creation, and otherwise is the time of the last
\* operation that changed the status to a different value.  Step by step: a
\* new row has it null; a step that changes the stored status of a row sets
\* it to the time of the call; a step that leaves the stored status of a row
\* the same (an update or a batch update to the status the row already has
\* included) leaves it as it was.
C15_StampTracksStatusChanges ==
    [][ /\ \A i \in (Len(items) + 1)..Len(items') :
                items'[i].status_changed_at = NoTime
        /\ \A i \in Ids :
                IF items'[i].status # items[i].status
                THEN items'[i].status_changed_at = now
                ELSE items'[i].status_changed_at = items[i].status_changed_at
      ]_vars

\* C16: no status is terminal: each of the four statuses has a different
\* status the policy lets it move to, and for every row that is not deleted
\* there is an update_status call that is accepted and changes its status.
C16_NoTerminalStatus ==
    /\ \A s \in ActionItemStatus : \E t \in ActionItemStatus :
            /\ t # s
            /\ is_valid_transition(EnumValue[s], EnumValue[t])
    /\ \A i \in Ids :
            ~items[i].is_deleted =>
                \E t \in ActionItemStatus :
                    ENABLED ( /\ update_status(i, t)
                              /\ last'.result = "ok"
                              /\ items'[i].status # items[i].status )

\* update_status has just moved a row out of cancelled while the other row,
\* not deleted, is done.
C16_Witness ==
    /\ Len(items) = 2
    /\ last.op = "update_status"
    /\ last.result = "ok"
    /\ last.from = {"cancelled"}
    /\ items[last.id].status # "cancelled"
    /\ \E i \in Ids : items[i].status = "done" /\ ~items[i].is_deleted

C18_BatchIsOneStep ==
    last.op = "batch_update_status" =>
        /\ last.count = Cardinality({i \in Ids :
                i \in IdSet(last.ids) /\ ~items[i].is_deleted})
        /\ \A i \in Ids :
                (i \in IdSet(last.ids) /\ ~items[i].is_deleted) =>
                    /\ items[i].status = last.to
                    /\ items[i].status_changed_at # NoTime
                    /\ items[i].updated_at = items[i].status_changed_at
                    /\ \A j \in Ids :
                        (j \in IdSet(last.ids) /\ ~items[j].is_deleted) =>
                            items[j].status_changed_at =
                                items[i].status_changed_at

\* A batch call has just moved two rows, one todo and one cancelled, to done.
C18_Witness ==
    /\ last.op = "batch_update_status"
    /\ last.count = 2
    /\ last.from = {"todo", "cancelled"}
    /\ last.to = "done"
    /\ \A i \in Ids : items[i].status = "done" /\ items[i].status_changed_at = now

\* C19: a create request whose meeting_id is the id of no meeting is refused
\* with 404 and adds no row; a create request adds its row, one, only when
\* the meeting exists.
C19_CreateNeedsMeeting ==
    [][ \A r \in WideCreateRequests :
            (last'.op = "create_action_item" /\ create_action_item(r)) =>
                IF r.meeting_id \in {1, 2}
                THEN /\ last'.result = "ok"
                     /\ Len(items') = Len(items) + 1
                     /\ items'[Len(items')].meeting_id = r.meeting_id
                     /\ \A i \in Ids : items'[i] = items[i]
                ELSE /\ last'.result = "HTTP_404_NOT_FOUND"
                     /\ items' = items
      ]_vars

\* A create request for meeting 3 has just been refused; the table holds the
\* one row an earlier request added.
C19_Witness ==
    /\ last.op = "create_action_item"
    /\ last.result = "HTTP_404_NOT_FOUND"
    /\ Len(items) = 1
    /\ items[1].meeting_id = 1

C21_NoneKeepsStoredValue ==
    [][ \A id \in OneRowIds :
            ( /\ last'.op = "update_action_item"
              /\ last'.id = id
              /\ select_not_deleted(id) ) =>
                \A u \in WideUpdateRequests :
                    ( /\ (IF u.status \in ActionItemStatus
                          THEN EnumValue[u.status] ELSE u.status) = last'.to
                      /\ update_action_item(id, u) ) =>
                        \A f \in {"title", "description", "owner",
                                   "due_date", "status", "priority", "notes"} :
                            u[f] = NULL => items'[id][f] = items[id][f]
      ]_vars

\* C22: with calls run one after another, a soft-deleted row is frozen: no
\* step changes any of its columns (is_deleted stays true), a call of
\* update_action_item or update_status on its id raises
\* ActionItemNotFoundError, and a batch_update_status that lists it does
\* not count it.
C22_DeletedRowIsFrozen ==
    [][ /\ \A i \in Ids : items[i].is_deleted => items'[i] = items[i]
        /\ ( /\ now' = now
             /\ last'.op \in {"update_action_item", "update_status"}
             /\ last'.id \in Ids
             /\ items[last'.id].is_deleted )
                => last'.result = "ActionItemNotFoundError"
        /\ (now' = now /\ last'.op = "batch_update_status") =>
                last'.count = Cardinality({i \in Ids :
                    /\ \E k \in 1..Len(last'.ids) : last'.ids[k] = i
                    /\ ~items[i].is_deleted})
      ]_vars

\* update_status has just been refused on a row deleted at an earlier time,
\* which still has the updated_at of its deletion.
C22_Witness ==
    /\ last.op = "update_status"
    /\ last.result = "ActionItemNotFoundError"
    /\ last.id \in Ids
    /\ items[last.id].is_deleted
    /\ items[last.id].deleted_at < now
    /\ items[last.id].updated_at = items[last.id].deleted_at

\* update_status(i, t) is accepted in this state and leaves row i in t.
Accepted(i, t) ==
    ENABLED ( /\ update_status(i, t)
              /\ last'.result = "ok"
              /\ items'[i].status = EnumValue[t]
              /\ ~items'[i].is_deleted )

\* C23: a row that is not deleted, in status s, can be brought to every
\* other status t by one accepted update_status call or by two in a row:
\* either the call to t is accepted, or a call to some m is accepted and the
\* policy admits m -> t.  A call is accepted in every state exactly when the
\* policy admits it, so the second call is accepted in the state the first
\* one leaves.  On a cancelled row the call to done is refused and changes
\* nothing, while cancelled -> todo and todo -> done are admitted.
C23_TwoHopsReachAnyStatus ==
    /\ \A i \in Ids :
            ~items[i].is_deleted =>
                /\ \A t \in ActionItemStatus :
                        EnumValue[t] # items[i].status =>
                            \/ Accepted(i, t)
                            \/ \E m \in ActionItemStatus :
                                    /\ Accepted(i, m)
                                    /\ is_valid_transition(EnumValue[m],
                                                           EnumValue[t])
                /\ \A t \in ActionItemStatus :
                        Accepted(i, t)
                            <=> is_valid_transition(items[i].status, EnumValue[t])
                /\ items[i].status = "cancelled" =>
                        /\ ~Accepted(i, DONE)
                        /\ ENABLED ( /\ update_status(i, DONE)
                                     /\ last'.result =
                                            "InvalidStatusTransitionError"
                                     /\ items' = items )
                        /\ Accepted(i, TODO)
                /\ items[i].status = "todo" => Accepted(i, DONE)
    /\ \A s \in ActionItemStatus : \A t \in ActionItemStatus :
            s # t =>
                \/ is_valid_transition(EnumValue[s], EnumValue[t])
                \/ \E m \in ActionItemStatus :
                        /\ is_valid_transition(EnumValue[s], EnumValue[m])
                        /\ is_valid_transition(EnumValue[m], EnumValue[t])

\* update_status has just taken a row from todo to done, next to a row that
\* is cancelled and not deleted.
C23_Witness ==
    /\ Len(items) = 2
    /\ last.op = "update_status"
    /\ last.result = "ok"
    /\ last.from = {"todo"}
    /\ last.to = "done"
    /\ items[last.id].status = "done"
    /\ \E i \in Ids : items[i].status = "cancelled" /\ ~items[i].is_deleted

\* C24: a call of update_action_item (also with an empty mask),
\* update_status or delete_action_item that succeeds, and a
\* batch_update_status on each row it affects, set updated_at to the time of
\* the call; a call that fails leaves every updated_at as it was; no step
\* lowers an updated_at, and the updated_at of a row is never earlier than
\* its status_changed_at or its deleted_at.
C24_UpdatedAtIsRefreshed ==
    [][ /\ ( /\ now' = now
             /\ last'.op \in {"update_action_item", "update_status",
                               "delete_action_item"} ) =>
                IF last'.result = "ok"
                THEN /\ last'.id \in Ids
                     /\ items'[last'.id].updated_at = now
                ELSE \A i \in Ids : items'[i].updated_at = items[i].updated_at
        /\ (now' = now /\ last'.op = "batch_update_status") =>
                \A i \in Ids :
                    items'[i].updated_at =
                        IF /\ \E k \in 1..Len(last'.ids) : last'.ids[k] = i
                           /\ ~items[i].is_deleted
                        THEN now ELSE items[i].updated_at
        /\ \A i \in Ids : items'[i].updated_at >= items[i].updated_at
        /\ \A i \in 1..Len(items') :
                /\ items'[i].updated_at >= items'[i].status_changed_at
                /\ items'[i].updated_at >= items'[i].deleted_at
                /\ items'[i].updated_at >= items'[i].created_at
      ]_vars

\* An update_action_item with an empty mask has just refreshed updated_at on
\* a row created earlier whose status was never written.
C24_Witness ==
    /\ last.op = "update_action_item"
    /\ last.result = "ok"
    /\ last.to = UNSET
    /\ items[last.id].updated_at = now
    /\ items[last.id].created_at < now
    /\ items[last.id].status_changed_at = NoTime
    /\ items[last.id].title = "t1"

\* C25: also when single-row update calls on one id overlap, each with its
\* select and its flush as separate steps and another call's flush between
\* them, and no batch call runs, every step that changes the stored status
\* of a row from s to t has is_valid_transition(s, t).
C25_ValidTransitionsWhenOverlapping ==
    [][ \A i \in Ids :
            items'[i].status # items[i].status =>
                is_valid_transition(items[i].status, items'[i].status)
      ]_vars

\* C26: no write of update_action_item or update_status lands on a row whose
\* is_deleted is true, also when a delete_action_item on the id completes
\* between the update's select and its flush: the title, status,
\* status_changed_at and updated_at of a soft-deleted row never change.
C26_NoWriteOnDeletedRow ==
    [][ \A i \in Ids :
            items[i].is_deleted =>
                /\ items'[i].title = items[i].title
                /\ items'[i].status = items[i].status
                /\ items'[i].status_changed_at = items[i].status_changed_at
                /\ items'[i].updated_at = items[i].updated_at
      ]_vars

\* C27: for every ActionItemUpdate the schema accepts, each field unset, set
\* to a value or set to null, status set to null included,
\* update_action_item returns the updated row or raises
\* ActionItemNotFoundError or InvalidStatusTransitionError and no other error
\* of its own; the refusal of a null by the store at the flush is not an
\* error of its own logic and is left out of the count.
C27_UpdateRaisesOnlyDeclaredErrors ==
    last.op = "update_action_item" =>
        last.result \in {"ok", "ActionItemNotFoundError",
                         "InvalidStatusTransitionError", "IntegrityError"}

====
